---- MODULE Spec2Model ----
(***************************************************************************)
(* The code cells of the two notebooks, each as a straight-line program    *)
(* over the kernel's namespace.  One specification per cell:               *)
(*   Spec        the quantile-normalization cell                           *)
(*   SpecDecimal the decimal-scaling cell                                  *)
(*   SpecMean    the mean-subtraction cell                                 *)
(*   SpecZscore  the z-score (StandardScaler) cell                         *)
(*                                                                         *)
(* Numbers.  A Python int / int64 cell is a TLA+ integer.  A float is the  *)
(* exact rational it denotes, <<num, den>> with den > 0; <<0, 0>> is NaN   *)
(* (the mean of an empty slice, 0/0).  Rounding of floats is not modelled. *)
(*                                                                         *)
(* Arrays.  A numpy array is [shape, dtype, a]: a 2-D array of shape       *)
(* <<R, C>> holds a sequence of R rows of length C, a 1-D array of shape   *)
(* <<n>> holds a sequence of n cells.                                      *)
(***************************************************************************)
EXTENDS Integers, Sequences, FiniteSets

VARIABLES
    pc,                         \* the statement the cell is about to run
    err,                        \* the exception that ended the cell, or NoError
    src,                        \* the list literal handed to the cell
    data,
    reference_distribution,
    sorted_data,
    quantile_normalized_data,
    i,                          \* the fill loop's index (0-based, as in Python)
    max_digits,
    scale_factor,
    scaled_data,
    mean,
    scaler,
    normalized_data,
    out                         \* what the cell printed, in order

vars == <<pc, err, src, data, reference_distribution, sorted_data,
          quantile_normalized_data, i, max_digits, scale_factor, scaled_data,
          mean, scaler, normalized_data, out>>

\* The value of a name of the kernel's namespace that is not bound yet.
Unset == [bound |-> FALSE]
NoError == "none"

\* ---------------------------------------------------------------- bounds
MaxRows == 2
MaxCols == 2
MaxVal == 2

\* ------------------------------------------------------------- sequences
RECURSIVE SumSeq(_)
SumSeq(s) == IF s = <<>> THEN 0 ELSE Head(s) + SumSeq(Tail(s))

RECURSIVE Insert(_, _)
Insert(x, s) ==
    IF s = <<>> THEN <<x>>
    ELSE IF x < Head(s) THEN <<x>> \o s
    ELSE <<Head(s)>> \o Insert(x, Tail(s))

\* Ascending stable sort of a sequence of integers.
RECURSIVE SortSeq(_)
SortSeq(s) == IF s = <<>> THEN <<>> ELSE Insert(s[Len(s)], SortSeq(SubSeq(s, 1, Len(s) - 1)))

Reverse(s) == [k \in 1..Len(s) |-> s[Len(s) + 1 - k]]

SeqsUpTo(S, n) == UNION {[1..k -> S] : k \in 0..n}

\* ---------------------------------------------------------------- arrays
NRows(arr) == arr.shape[1]
NCols(arr) == arr.shape[2]
Column(arr, c) == [r \in 1..NRows(arr) |-> arr.a[r][c]]

\* The array whose column c is cols[c].
FromColumns(arr, cols) ==
    [arr EXCEPT !.a = [r \in 1..NRows(arr) |-> [c \in 1..NCols(arr) |-> cols[c][r]]]]

IsRectangular(list) == \A r1, r2 \in 1..Len(list) : Len(list[r1]) = Len(list[r2])

\* np.array(list) of a rectangular list of rows of Python ints.  An empty
\* list gives a 1-D float array of shape (0,); rows without cells give a
\* float array of shape (R, 0).
NpArray(list) ==
    IF list = <<>> THEN [shape |-> <<0>>, dtype |-> "float", a |-> <<>>]
    ELSE [shape |-> <<Len(list), Len(list[1])>>,
          dtype |-> IF Len(list[1]) = 0 THEN "float" ELSE "int",
          a |-> list]

\* np.array(list) of a ragged list, where the build still accepts it: a 1-D
\* array of list objects.
NpObjectArray(list) == [shape |-> <<Len(list)>>, dtype |-> "object", a |-> list]

\* rankdata of one column, doubled: as scipy computes it, the values are
\* sorted and a value's rank is the average of the first and the last
\* (1-based) position it takes in the sorted column.
FirstPos(s, v) == CHOOSE k \in 1..Len(s) : s[k] = v /\ \A j \in 1..(k - 1) : s[j] # v
LastPos(s, v) == CHOOSE k \in 1..Len(s) : s[k] = v /\ \A j \in (k + 1)..Len(s) : s[j] # v

RankData2Min(col) == LET s == SortSeq(col) IN [r \in 1..Len(col) |-> 2 * FirstPos(s, col[r])]

RankData2(col) ==
    LET s == SortSeq(col) IN [r \in 1..Len(col) |-> FirstPos(s, col[r]) + LastPos(s, col[r])]

\* np.mean(rankdata(data, axis=0), axis=1): one float per row.
RowSums(arr) ==
    LET ranks2 == [c \in 1..NCols(arr) |-> RankData2(Column(arr, c))]
    IN  [r \in 1..NRows(arr) |-> SumSeq([c \in 1..NCols(arr) |-> ranks2[c][r]])]

ReferenceDistribution(arr) ==
    LET sums2 == RowSums(arr)
    IN  [shape |-> <<NRows(arr)>>, dtype |-> "float",
         a |-> [r \in 1..NRows(arr) |-> <<sums2[r], 2 * NCols(arr)>>]]

\* np.sort(arr, axis=0): a new array, every column sorted ascending.
NpSort0(arr) == FromColumns(arr, [c \in 1..NCols(arr) |-> SortSeq(Column(arr, c))])

\* np.flip(arr, axis=0): a new array, the rows in reverse order.
NpFlip0(arr) == [arr EXCEPT !.a = Reverse(arr.a)]

ZerosLikeTransposed(arr) ==
    [shape |-> <<NCols(arr), NRows(arr)>>, dtype |-> arr.dtype,
     a |-> [r \in 1..NCols(arr) |-> [c \in 1..NRows(arr) |-> 0]]]

\* np.zeros_like(arr)
ZerosLike(arr) == [arr EXCEPT !.a = [r \in 1..NRows(arr) |-> [c \in 1..NCols(arr) |-> 0]]]

AsIntRounded(x) == (2 * x[1] + x[2]) \div (2 * x[2])

\* A float stored into an int64 cell is truncated towards zero (the floats
\* here are not negative).
AsInt(x) == x[1] \div x[2]

\* arr[:, c] = x
SetColumn(arr, c, x) ==
    [arr EXCEPT !.a = [r \in 1..NRows(arr) |-> [arr.a[r] EXCEPT ![c] = x]]]

\* ------------------------------------------- the quantile-normalization cell
Example == <<<<10, 20, 30>>, <<40, 50, 60>>, <<70, 80, 90>>>>

Tables == SeqsUpTo(SeqsUpTo(1..MaxVal, MaxCols), MaxRows) \cup {Example}

Init ==
    /\ pc = "create"
    /\ err = NoError
    /\ src \in Tables
    /\ data = Unset
    /\ reference_distribution = Unset
    /\ sorted_data = Unset
    /\ quantile_normalized_data = Unset
    /\ i = Unset
    /\ max_digits = Unset
    /\ scale_factor = Unset
    /\ scaled_data = Unset
    /\ mean = Unset
    /\ scaler = Unset
    /\ normalized_data = Unset
    /\ out = <<>>

Raise(e) == pc' = "error" /\ err' = e

\* data = np.array([...])
CreateData ==
    /\ pc = "create"
    /\ IsRectangular(src)
    /\ data' = NpArray(src)
    /\ pc' = "reference"
    /\ UNCHANGED <<err, src, reference_distribution, sorted_data, quantile_normalized_data,
                   i, max_digits, scale_factor, scaled_data, mean, scaler, normalized_data, out>>

\* A ragged list: the build either rejects it (ValueError) or makes a 1-D
\* array of list objects.
CreateRaggedRejected ==
    /\ pc = "create"
    /\ ~IsRectangular(src)
    /\ Raise("ValueError")
    /\ UNCHANGED <<src, data, reference_distribution, sorted_data, quantile_normalized_data,
                   i, max_digits, scale_factor, scaled_data, mean, scaler, normalized_data, out>>

CreateRaggedObjects ==
    /\ pc = "create"
    /\ ~IsRectangular(src)
    /\ data' = NpObjectArray(src)
    /\ pc' = "reference"
    /\ UNCHANGED <<err, src, reference_distribution, sorted_data, quantile_normalized_data,
                   i, max_digits, scale_factor, scaled_data, mean, scaler, normalized_data, out>>

\* reference_distribution = np.mean(rankdata(data, axis=0), axis=1)
ComputeReference ==
    /\ pc = "reference"
    /\ Len(data.shape) = 2
    /\ reference_distribution' = ReferenceDistribution(data)
    /\ pc' = "sort"
    /\ UNCHANGED <<err, src, data, sorted_data, quantile_normalized_data,
                   i, max_digits, scale_factor, scaled_data, mean, scaler, normalized_data, out>>

\* A 1-D array has no axis 1.
ComputeReferenceNoAxis ==
    /\ pc = "reference"
    /\ Len(data.shape) # 2
    /\ Raise("AxisError")
    /\ UNCHANGED <<src, data, reference_distribution, sorted_data, quantile_normalized_data,
                   i, max_digits, scale_factor, scaled_data, mean, scaler, normalized_data, out>>

SortDataInPlace ==
    /\ pc = "sort"
    /\ data' = NpSort0(data)
    /\ sorted_data' = data'
    /\ pc' = "zeros"
    /\ UNCHANGED <<err, src, reference_distribution, quantile_normalized_data,
                   i, max_digits, scale_factor, scaled_data, mean, scaler, normalized_data, out>>

\* sorted_data = np.sort(data, axis=0)
SortData ==
    /\ pc = "sort"
    /\ sorted_data' = NpSort0(data)
    /\ pc' = "zeros"
    /\ UNCHANGED <<err, src, data, reference_distribution, quantile_normalized_data,
                   i, max_digits, scale_factor, scaled_data, mean, scaler, normalized_data, out>>

\* quantile_normalized_data = np.zeros_like(sorted_data); the loop starts
Allocate ==
    /\ pc = "zeros"
    /\ quantile_normalized_data' = ZerosLike(sorted_data)
    /\ i' = 0
    /\ pc' = "fill"
    /\ UNCHANGED <<err, src, data, reference_distribution, sorted_data,
                   max_digits, scale_factor, scaled_data, mean, scaler, normalized_data, out>>

\* for i in range(sorted_data.shape[1]):
\*     quantile_normalized_data[:, i] = reference_distribution[i]
FillColumn ==
    /\ pc = "fill"
    /\ i < NCols(sorted_data)
    /\ i < reference_distribution.shape[1]
    /\ quantile_normalized_data' =
           SetColumn(quantile_normalized_data, i + 1, AsInt(reference_distribution.a[i + 1]))
    /\ i' = i + 1
    /\ UNCHANGED <<pc, err, src, data, reference_distribution, sorted_data,
                   max_digits, scale_factor, scaled_data, mean, scaler, normalized_data, out>>

FillStopsAtReference ==
    /\ pc = "fill"
    /\ i < NCols(sorted_data)
    /\ i >= reference_distribution.shape[1]
    /\ pc' = "resort"
    /\ UNCHANGED <<err, src, data, reference_distribution, sorted_data, quantile_normalized_data,
                   i, max_digits, scale_factor, scaled_data, mean, scaler, normalized_data, out>>

FillIndexError ==
    /\ pc = "fill"
    /\ i < NCols(sorted_data)
    /\ i >= reference_distribution.shape[1]
    /\ Raise("IndexError")
    /\ UNCHANGED <<src, data, reference_distribution, sorted_data, quantile_normalized_data,
                   i, max_digits, scale_factor, scaled_data, mean, scaler, normalized_data, out>>

FillDone ==
    /\ pc = "fill"
    /\ i >= NCols(sorted_data)
    /\ pc' = "resort"
    /\ UNCHANGED <<err, src, data, reference_distribution, sorted_data, quantile_normalized_data,
                   i, max_digits, scale_factor, scaled_data, mean, scaler, normalized_data, out>>

\* quantile_normalized_data = np.sort(quantile_normalized_data, axis=0)
SortNormalized ==
    /\ pc = "resort"
    /\ quantile_normalized_data' = NpSort0(quantile_normalized_data)
    /\ pc' = "flip"
    /\ UNCHANGED <<err, src, data, reference_distribution, sorted_data,
                   i, max_digits, scale_factor, scaled_data, mean, scaler, normalized_data, out>>

\* quantile_normalized_data = np.flip(quantile_normalized_data, axis=0)
FlipNormalized ==
    /\ pc = "flip"
    /\ quantile_normalized_data' = NpFlip0(quantile_normalized_data)
    /\ pc' = "print"
    /\ UNCHANGED <<err, src, data, reference_distribution, sorted_data,
                   i, max_digits, scale_factor, scaled_data, mean, scaler, normalized_data, out>>

\* The three prints: the table under "Reference distribution" is the
\* normalized table again.
PrintTables ==
    /\ pc = "print"
    /\ out' = <<data, quantile_normalized_data, quantile_normalized_data>>
    /\ pc' = "done"
    /\ UNCHANGED <<err, src, data, reference_distribution, sorted_data, quantile_normalized_data,
                   i, max_digits, scale_factor, scaled_data, mean, scaler, normalized_data>>

Next ==
    \/ CreateData
    \/ CreateRaggedRejected
    \/ CreateRaggedObjects
    \/ ComputeReference
    \/ ComputeReferenceNoAxis
    \/ SortData
    \/ Allocate
    \/ FillColumn
    \/ FillIndexError
    \/ FillDone
    \/ SortNormalized
    \/ FlipNormalized
    \/ PrintTables

Spec == Init /\ [][Next]_vars

\* -------------------------------------------------- the decimal-scaling cell
MaxDecVal == 12
MaxDecLen == 2

DecimalExample == <<10, 100, 1000, 10000, 100000>>

RECURSIVE MaxOf(_)
MaxOf(s) ==
    IF Len(s) = 1 THEN s[1]
    ELSE LET m == MaxOf(Tail(s)) IN IF s[1] >= m THEN s[1] ELSE m

\* str(n) of a non-negative int: its decimal digits, most significant first.
DigitChar(d) == <<"0", "1", "2", "3", "4", "5", "6", "7", "8", "9">>[d + 1]

RECURSIVE Str(_)
Str(n) == IF n < 10 THEN <<DigitChar(n)>> ELSE Str(n \div 10) \o <<DigitChar(n % 10)>>

RECURSIVE Pow(_, _)
Pow(b, e) == IF e = 0 THEN 1 ELSE b * Pow(b, e - 1)

MaxDigitsOfFirst(list) == Len(Str(list[1]))

\* len(str(max(data)))
MaxDigits(list) == Len(Str(MaxOf(list)))

\* x / scale_factor of two ints: a float
TrueDiv(x, y) == <<x, y>>

InitDecimal ==
    /\ pc = "create"
    /\ err = NoError
    /\ src \in SeqsUpTo(1..MaxDecVal, MaxDecLen) \cup {DecimalExample}
    /\ data = Unset
    /\ reference_distribution = Unset
    /\ sorted_data = Unset
    /\ quantile_normalized_data = Unset
    /\ i = Unset
    /\ max_digits = Unset
    /\ scale_factor = Unset
    /\ scaled_data = Unset
    /\ mean = Unset
    /\ scaler = Unset
    /\ normalized_data = Unset
    /\ out = <<>>

quantileVars == <<reference_distribution, sorted_data, quantile_normalized_data, i>>
decimalVars == <<max_digits, scale_factor, scaled_data>>
normalizeVars == <<mean, scaler, normalized_data>>

\* data = [...]
DecimalCreate ==
    /\ pc = "create"
    /\ data' = src
    /\ pc' = "digits"
    /\ UNCHANGED <<err, src, quantileVars, decimalVars, normalizeVars, out>>

\* max_digits = len(str(max(data)))
DecimalMaxDigits ==
    /\ pc = "digits"
    /\ data # <<>>
    /\ max_digits' = MaxDigits(data)
    /\ pc' = "factor"
    /\ UNCHANGED <<err, src, data, quantileVars, scale_factor, scaled_data, normalizeVars, out>>

\* max() of an empty list
DecimalMaxOfEmpty ==
    /\ pc = "digits"
    /\ data = <<>>
    /\ Raise("ValueError")
    /\ UNCHANGED <<src, data, quantileVars, decimalVars, normalizeVars, out>>

\* scale_factor = 10 ** max_digits
DecimalScaleFactor ==
    /\ pc = "factor"
    /\ scale_factor' = Pow(10, max_digits)
    /\ pc' = "scale"
    /\ UNCHANGED <<err, src, data, quantileVars, max_digits, scaled_data, normalizeVars, out>>

\* scaled_data = [x / scale_factor for x in data]
DecimalScale ==
    /\ pc = "scale"
    /\ scaled_data' = [k \in 1..Len(data) |-> TrueDiv(data[k], scale_factor)]
    /\ pc' = "print"
    /\ UNCHANGED <<err, src, data, quantileVars, max_digits, scale_factor, normalizeVars, out>>

DecimalPrint ==
    /\ pc = "print"
    /\ out' = <<scaled_data>>
    /\ pc' = "done"
    /\ UNCHANGED <<err, src, data, quantileVars, decimalVars, normalizeVars>>

NextDecimal ==
    \/ DecimalCreate
    \/ DecimalMaxDigits
    \/ DecimalMaxOfEmpty
    \/ DecimalScaleFactor
    \/ DecimalScale
    \/ DecimalPrint

SpecDecimal == InitDecimal /\ [][NextDecimal]_vars

\* ------------------------------------------------------------- floats
\* Arithmetic of floats as exact rationals <<num, den>>.
Abs(n) == IF n < 0 THEN -n ELSE n

RECURSIVE Gcd(_, _)
Gcd(a, b) == IF b = 0 THEN a ELSE Gcd(b, a % b)

\* The same number in lowest terms with a positive denominator; a zero
\* denominator (NaN, infinity) is kept.
Reduce(x) ==
    IF x[2] = 0 THEN x
    ELSE LET g == Gcd(Abs(x[1]), Abs(x[2]))
             sign == IF x[2] < 0 THEN -1 ELSE 1
         IN  <<sign * (x[1] \div g), sign * (x[2] \div g)>>

Rat(n) == <<n, 1>>
RatAdd(x, y) == Reduce(<<x[1] * y[2] + y[1] * x[2], x[2] * y[2]>>)
RatSub(x, y) == Reduce(<<x[1] * y[2] - y[1] * x[2], x[2] * y[2]>>)
RatMul(x, y) == Reduce(<<x[1] * y[1], x[2] * y[2]>>)
RatDiv(x, y) == Reduce(<<x[1] * y[2], x[2] * y[1]>>)
IsNaN(x) == x[2] = 0
RatEq(x, y) == ~IsNaN(x) /\ ~IsNaN(y) /\ x[1] * y[2] = y[1] * x[2]

RECURSIVE RatSum(_)
RatSum(s) == IF s = <<>> THEN Rat(0) ELSE RatAdd(Head(s), RatSum(Tail(s)))

\* np.array(list) of a flat list of Python ints
NpArray1(list) ==
    [shape |-> <<Len(list)>>, dtype |-> IF list = <<>> THEN "float" ELSE "int", a |-> list]

NpMeanFloorDiv(arr) ==
    IF Len(arr.a) = 0 THEN <<0, 0>> ELSE <<SumSeq(arr.a) \div Len(arr.a), 1>>

\* np.mean(arr) of a 1-D int array: the sum over the count, NaN when the
\* array is empty.
NpMean(arr) == <<SumSeq(arr.a), Len(arr.a)>>

\* ------------------------------------------------ the mean-subtraction cell
MaxNum == 2
MaxLen == 3

NormalizeExample == <<1, 2, 3, 4, 5>>

Lists == SeqsUpTo((-MaxNum)..MaxNum, MaxLen) \cup {NormalizeExample}

InitMean ==
    /\ pc = "create"
    /\ err = NoError
    /\ src \in Lists
    /\ data = Unset
    /\ reference_distribution = Unset
    /\ sorted_data = Unset
    /\ quantile_normalized_data = Unset
    /\ i = Unset
    /\ max_digits = Unset
    /\ scale_factor = Unset
    /\ scaled_data = Unset
    /\ mean = Unset
    /\ scaler = Unset
    /\ normalized_data = Unset
    /\ out = <<>>

\* data = np.array([...])
MeanCreate ==
    /\ pc = "create"
    /\ data' = NpArray1(src)
    /\ pc' = "mean"
    /\ UNCHANGED <<err, src, quantileVars, decimalVars, normalizeVars, out>>

\* mean = np.mean(data)
MeanCompute ==
    /\ pc = "mean"
    /\ mean' = NpMean(data)
    /\ pc' = "subtract"
    /\ UNCHANGED <<err, src, data, quantileVars, decimalVars, scaler, normalized_data, out>>

\* normalized_data = data - mean
MeanSubtract ==
    /\ pc = "subtract"
    /\ normalized_data' =
           [shape |-> data.shape, dtype |-> "float",
            a |-> [k \in 1..Len(data.a) |-> RatSub(Rat(data.a[k]), mean)]]
    /\ pc' = "print"
    /\ UNCHANGED <<err, src, data, quantileVars, decimalVars, mean, scaler, out>>

MeanPrint ==
    /\ pc = "print"
    /\ out' = <<normalized_data>>
    /\ pc' = "done"
    /\ UNCHANGED <<err, src, data, quantileVars, decimalVars, normalizeVars>>

NextMean ==
    \/ MeanCreate
    \/ MeanCompute
    \/ MeanSubtract
    \/ MeanPrint

SpecMean == InitMean /\ [][NextMean]_vars

\* ------------------------------------------------------- the z-score cell
\* data.reshape(-1, 1): one column
ReshapeColumn(arr) ==
    [shape |-> <<Len(arr.a), 1>>, dtype |-> arr.dtype, a |-> [k \in 1..Len(arr.a) |-> <<arr.a[k]>>]]

ColumnMean(col) == <<SumSeq(col), Len(col)>>

ColumnVarSample(col) ==
    LET m == ColumnMean(col)
        sq == [k \in 1..Len(col) |-> RatMul(RatSub(Rat(col[k]), m), RatSub(Rat(col[k]), m))]
    IN  RatDiv(RatSum(sq), Rat(Len(col) - 1))

\* The variance StandardScaler fits: the mean of the squared deviations
\* from the mean.
ColumnVar(col) ==
    LET m == ColumnMean(col)
        sq == [k \in 1..Len(col) |-> RatMul(RatSub(Rat(col[k]), m), RatSub(Rat(col[k]), m))]
    IN  RatDiv(RatSum(sq), Rat(Len(col)))

\* StandardScaler.fit: per column mean_, var_ and scale_ = sqrt(var_), a
\* zero scale_ replaced by 1.  scale_ is kept as its square, scale2_.
Fit(X) ==
    [mean_ |-> [c \in 1..NCols(X) |-> ColumnMean(Column(X, c))],
     var_ |-> [c \in 1..NCols(X) |-> ColumnVar(Column(X, c))],
     scale2_ |-> [c \in 1..NCols(X) |->
                     LET v == ColumnVar(Column(X, c)) IN IF v[1] = 0 THEN Rat(1) ELSE v]]

\* StandardScaler.transform: (X - mean_) / scale_.  A cell [dev, scale2]
\* is the float dev / sqrt(scale2).
Transform(s, X) ==
    [shape |-> X.shape, dtype |-> "float",
     a |-> [r \in 1..NRows(X) |-> [c \in 1..NCols(X) |->
               [dev |-> RatSub(Rat(X.a[r][c]), s.mean_[c]), scale2 |-> s.scale2_[c]]]]]

InitZscore ==
    /\ pc = "create"
    /\ err = NoError
    /\ src \in Lists
    /\ data = Unset
    /\ reference_distribution = Unset
    /\ sorted_data = Unset
    /\ quantile_normalized_data = Unset
    /\ i = Unset
    /\ max_digits = Unset
    /\ scale_factor = Unset
    /\ scaled_data = Unset
    /\ mean = Unset
    /\ scaler = Unset
    /\ normalized_data = Unset
    /\ out = <<>>

\* data = np.array([...])
ZscoreCreate ==
    /\ pc = "create"
    /\ data' = NpArray1(src)
    /\ pc' = "scaler"
    /\ UNCHANGED <<err, src, quantileVars, decimalVars, normalizeVars, out>>

\* scaler = StandardScaler()
ZscoreScaler ==
    /\ pc = "scaler"
    /\ scaler' = [fitted |-> FALSE]
    /\ pc' = "fit_transform"
    /\ UNCHANGED <<err, src, data, quantileVars, decimalVars, mean, normalized_data, out>>

\* normalized_data = scaler.fit_transform(data.reshape(-1, 1))
ZscoreFitTransform ==
    /\ pc = "fit_transform"
    /\ Len(data.a) >= 1
    /\ LET X == ReshapeColumn(data)
           fitted == Fit(X)
       IN  /\ scaler' = [fitted |-> TRUE, mean_ |-> fitted.mean_, var_ |-> fitted.var_,
                         scale2_ |-> fitted.scale2_]
           /\ normalized_data' = Transform(fitted, X)
    /\ pc' = "print"
    /\ UNCHANGED <<err, src, data, quantileVars, decimalVars, mean, out>>

\* fit rejects an array without samples
ZscoreNoSamples ==
    /\ pc = "fit_transform"
    /\ Len(data.a) = 0
    /\ Raise("ValueError")
    /\ UNCHANGED <<src, data, quantileVars, decimalVars, normalizeVars, out>>

ZscorePrint ==
    /\ pc = "print"
    /\ out' = <<normalized_data>>
    /\ pc' = "done"
    /\ UNCHANGED <<err, src, data, quantileVars, decimalVars, normalizeVars>>

NextZscore ==
    \/ ZscoreCreate
    \/ ZscoreScaler
    \/ ZscoreFitTransform
    \/ ZscoreNoSamples
    \/ ZscorePrint

SpecZscore == InitZscore /\ [][NextZscore]_vars

\* ------------------------------------------------- claims, quantile cell
Completed == pc = "done"
Normalized == quantile_normalized_data

\* The reference entry at sorted position k, as an int64 cell holds it.
RefAt(k) == AsInt(reference_distribution.a[k])

\* C1: on the example table the cell completes with a normalized table, the
\* one it prints, whose every column is [1, 2, 3].
C1_ExampleColumns ==
    (Completed /\ src = Example) =>
        /\ \A c \in 1..3 : Column(Normalized, c) = <<1, 2, 3>>
        /\ out[3] = Normalized

\* p lists the rows of col in ascending order of their values.
IsSortPermutation(p, col) ==
    /\ \A k1, k2 \in 1..Len(col) : k1 # k2 => p[k1] # p[k2]
    /\ \A k1, k2 \in 1..Len(col) : k1 < k2 => col[p[k1]] <= col[p[k2]]

\* C2: in every column the row holding the k-th smallest value of the input
\* column holds the k-th reference entry (original row order restored), so
\* a smaller input never gets a larger output and the smallest input of a
\* column gets the first reference entry.
C2_RankRemapped ==
    Completed =>
        \A c \in 1..NCols(data) :
            \E p \in [1..NRows(data) -> 1..NRows(data)] :
                /\ IsSortPermutation(p, Column(data, c))
                /\ \A k \in 1..NRows(data) : Normalized.a[p[k]][c] = RefAt(k)

\* C3: every column of the normalized table, as a multiset, is the multiset
\* of the entries of reference_distribution.
C3_ColumnsAreReference ==
    Completed =>
        \A c \in 1..NCols(data) :
            SortSeq(Column(Normalized, c)) =
                SortSeq([k \in 1..Len(reference_distribution.a) |-> RefAt(k)])

\* C4: from its allocation on, through the fill loop, the sort and the flip,
\* the normalized table has the rows and columns of the input table.
C4_ShapePreserved ==
    Normalized # Unset =>
        /\ Normalized.shape = data.shape
        /\ Len(Normalized.a) = NRows(data)
        /\ \A r \in 1..NRows(data) : Len(Normalized.a[r]) = NCols(data)

C4_Witness == Completed /\ NRows(data) = 2 /\ NCols(data) = 1

\* The rank of col[r] in col, doubled: 1-based, ties share the average of
\* the ranks they span.
CountLess(col, v) == Cardinality({k \in 1..Len(col) : col[k] < v})
CountEqual(col, v) == Cardinality({k \in 1..Len(col) : col[k] = v})
AverageRank2(col, r) == 2 * CountLess(col, col[r]) + CountEqual(col, col[r]) + 1

\* C5: for a table of R >= 1 rows and C >= 1 columns the reference
\* distribution has R entries, and entry r is the average over the columns
\* c of the average-rank of data[r][c] within column c.
C5_ReferenceIsMeanRank ==
    (reference_distribution # Unset /\ NRows(data) >= 1 /\ NCols(data) >= 1) =>
        /\ reference_distribution.shape = <<NRows(data)>>
        /\ Len(reference_distribution.a) = NRows(data)
        /\ \A r \in 1..NRows(data) :
               /\ reference_distribution.a[r][2] > 0
               /\ reference_distribution.a[r][1] * 2 * NCols(data) =
                      reference_distribution.a[r][2] *
                      SumSeq([c \in 1..NCols(data) |-> AverageRank2(Column(data, c), r)])

\* A reference distribution was computed from a column holding a tie and a
\* column holding none.
C5_Witness ==
    /\ reference_distribution # Unset
    /\ NRows(data) = 2
    /\ NCols(data) = 2
    /\ data.a[1][1] = data.a[2][1]
    /\ data.a[1][2] > data.a[2][2]

IsEmptyTable(list) == list = <<>> \/ \E r \in 1..Len(list) : list[r] = <<>>

\* C6: on an empty or a ragged table the cell ends in an error and never
\* completes with a normalized table.
C6_FailsFast == (IsEmptyTable(src) \/ ~IsRectangular(src)) => ~Completed

\* C10: once reference_distribution is assigned, no later step changes it or
\* data, and the table printed as original data is the input.
C10_InputsUntouched ==
    /\ [][reference_distribution # Unset =>
            (data' = data /\ reference_distribution' = reference_distribution)]_vars
    /\ [](Completed => (data = NpArray(src) /\ out[1] = data))

\* The cell completed on a table that the sort did reorder.
C10_Witness == Completed /\ sorted_data # data /\ out[1] = data

\* The integer truncation of a non-negative float: the n with n <= x < n + 1.
Truncated(x) == CHOOSE n \in 0..x[1] : n * x[2] <= x[1] /\ x[1] < (n + 1) * x[2]

MoreColumnsThanRows ==
    /\ reference_distribution # Unset
    /\ NRows(data) >= 1
    /\ NCols(data) > NRows(data)

\* C12: on a table with more columns than rows (C > R >= 1) the cell never
\* completes and prints nothing: the fill loop fills columns 0..R-1 and then
\* stops with an index error at column index R, the only state it stops in.
C12_IndexErrorAtColumnR ==
    MoreColumnsThanRows =>
        /\ ~Completed
        /\ out = <<>>
        /\ pc # "error" => ENABLED Next
        /\ pc \in {"sort", "zeros", "fill", "error"}
        /\ pc = "error" =>
               /\ err = "IndexError"
               /\ i = NRows(data)
               /\ \A r \in 1..NRows(data) : \A c \in 1..NCols(data) :
                      Normalized.a[r][c] =
                          IF c <= NRows(data) THEN Truncated(reference_distribution.a[c]) ELSE 0

\* The index error was raised on a table of one row and two columns.
C12_Witness ==
    /\ pc = "error"
    /\ err = "IndexError"
    /\ data.shape = <<1, 2>>
    /\ i = 1

\* -------------------------------------------------- claims, decimal cell
\* The number of decimal digits of a positive n: the least d with n < 10^d.
DigitCount(n) == CHOOSE d \in 1..(n + 1) : n < Pow(10, d) /\ Pow(10, d - 1) <= n

\* C7: every value x of a non-empty dataset of positive integers is scaled
\* to x / 10^d, d the number of decimal digits of the maximum of the
\* dataset, and the result lies in (0, 1]: 0 < x and x <= 10^d.
C7_DecimalScaledIntoUnit ==
    (pc \in {"print", "done"} /\ data # <<>>) =>
        LET top == CHOOSE x \in {data[k] : k \in 1..Len(data)} :
                       \A k \in 1..Len(data) : data[k] <= x
            d == DigitCount(top)
        IN  /\ Len(scaled_data) = Len(data)
            /\ \A k \in 1..Len(data) :
                   /\ scaled_data[k] = <<data[k], Pow(10, d)>>
                   /\ 0 < scaled_data[k][1]
                   /\ scaled_data[k][1] <= scaled_data[k][2]

\* The cell completed on a dataset whose maximum has more digits than its
\* first value.
C7_Witness == pc = "done" /\ Len(data) = 2 /\ data[1] < 10 /\ data[2] >= 10

\* ------------------------------------------- claims, mean-subtraction cell
\* C8: mean subtraction of a non-empty sequence yields a sequence of the
\* same length, each entry data[i] - mean(data), whose sum, and so whose
\* mean, is 0.
C8_MeanIsZero ==
    (pc \in {"print", "done"} /\ Len(data.a) >= 1) =>
        /\ Len(normalized_data.a) = Len(data.a)
        /\ \A k \in 1..Len(data.a) :
               RatEq(RatAdd(normalized_data.a[k], <<SumSeq(data.a), Len(data.a)>>),
                     Rat(data.a[k]))
        /\ RatEq(RatSum(normalized_data.a), Rat(0))
        /\ RatEq(RatDiv(RatSum(normalized_data.a), Rat(Len(normalized_data.a))), Rat(0))

\* The cell completed on a sequence whose mean is not an integer.
C8_Witness ==
    /\ pc = "done"
    /\ Len(data.a) = 3
    /\ SumSeq(data.a) % 3 # 0
    /\ \E k \in 1..3 : data.a[k] < 0

\* ---------------------------------------------------- claims, z-score cell
DistinctValues(arr) == {arr.a[k] : k \in 1..Len(arr.a)}

\* The variance of a sequence of ints, as the mean of the squares less the
\* square of the mean.
VarianceOf(s) ==
    RatSub(<<SumSeq([k \in 1..Len(s) |-> s[k] * s[k]]), Len(s)>>,
           <<SumSeq(s) * SumSeq(s), Len(s) * Len(s)>>)

\* C9: for a column holding more than one distinct value, each output is
\* (x - mean) / std of the input column, and the output column has mean 0
\* and standard deviation 1.  An output dev / sqrt(scale2) is (x - mean) /
\* std when dev = x - mean and scale2 = std^2; the outputs have mean 0 when
\* the devs sum to 0, and standard deviation 1 when the mean of dev^2 /
\* scale2 is 1.
C9_ZscoreStandardized ==
    (pc \in {"print", "done"} /\ Cardinality(DistinctValues(data)) > 1) =>
        LET n == Len(data.a)
            z == [k \in 1..n |-> normalized_data.a[k][1]]
        IN  /\ normalized_data.shape = <<n, 1>>
            /\ \A k \in 1..n :
                   /\ RatEq(z[k].dev, RatSub(Rat(data.a[k]), <<SumSeq(data.a), n>>))
                   /\ RatEq(z[k].scale2, VarianceOf(data.a))
                   /\ z[k].scale2[1] * z[k].scale2[2] > 0
            /\ RatEq(RatSum([k \in 1..n |-> z[k].dev]), Rat(0))
            /\ RatEq(RatDiv(RatSum([k \in 1..n |->
                                       RatDiv(RatMul(z[k].dev, z[k].dev), z[k].scale2)]),
                            Rat(n)),
                     Rat(1))

\* The cell completed on a column of three values, two of them equal.
C9_Witness ==
    /\ pc = "done"
    /\ Len(data.a) = 3
    /\ Cardinality(DistinctValues(data)) = 2

====
